---- MODULE Spec2Model ----
(***************************************************************************)
(* Verification model of the dev-fastapi-app snippets:                     *)
(*   - the posts module (structure/: route, dependencies, manager, models, *)
(*     schemas, exceptions) exercised as by testing/crud-routes.py,        *)
(*   - the transactional create_post_with_tags (database/transaction.py),  *)
(*   - the yield dependencies (deps/yield-cleanup.py),                     *)
(*   - the dependency chains (deps/resource-ownership.py, auth-chain.py,   *)
(*     permission-factory.py).                                             *)
(* Every scalar is written as its JSON text, so that a column can hold     *)
(* "null" next to a value: ids are "1", "2", ..., booleans "true"/"false". *)
(***************************************************************************)
EXTENDS Integers, Sequences, FiniteSets, TLC

VARIABLES
    post_table,   \* structure/models.py Post: id -> row, NoRow where no row
    issued,       \* how many ids uuid.uuid4 has produced (each one is new)
    last,         \* the last request of the posts router and its response
    deleted,      \* history: the ids whose DELETE was answered 204
    committed,    \* database/transaction.py: the rows every connection sees
    calls,        \* the calls of create_post_with_tags and their open transactions
    yreq,         \* deps/yield-cleanup.py: the requests to /users and /cache/{key}
    oreq,         \* deps/resource-ownership.py: the requests to get_user_post
    areq,         \* deps/auth-chain.py: the requests resolving get_active_user
    preq,         \* deps/permission-factory.py: the requests to the guarded routes
    pag,          \* deps/class-pagination.py: the last two requests to /items/
    mig,          \* database/migration-*.py: the schema, the user rows, the running migration
    life,         \* database/lifespan.py, structure/run.py: the application and its host
    dash,         \* async/concurrent-*.py: a call of get_user_dashboard / get_user_data
    pool          \* async/cpu-intensive-process-pool.py: the requests, the pool, the loop

vars ==
    <<post_table, issued, last, deleted, committed, calls, yreq, oreq,
      areq, preq, pag, mig, life, dash, pool>>

\* what each of the applications leaves alone
not_posts ==
    <<committed, calls, yreq, oreq, areq, preq, pag, mig, life, dash,
      pool>>
not_tx ==
    <<post_table, issued, last, deleted, yreq, oreq, areq, preq, pag,
      mig, life, dash, pool>>
not_yield ==
    <<post_table, issued, last, deleted, committed, calls, oreq, areq,
      preq, pag, mig, life, dash, pool>>
not_owner ==
    <<post_table, issued, last, deleted, committed, calls, yreq, areq,
      preq, pag, mig, life, dash, pool>>
not_auth ==
    <<post_table, issued, last, deleted, committed, calls, yreq, oreq,
      preq, pag, mig, life, dash, pool>>
not_perm ==
    <<post_table, issued, last, deleted, committed, calls, yreq, oreq,
      areq, pag, mig, life, dash, pool>>
not_page ==
    <<post_table, issued, last, deleted, committed, calls, yreq, oreq,
      areq, preq, mig, life, dash, pool>>
not_mig ==
    <<post_table, issued, last, deleted, committed, calls, yreq, oreq,
      areq, preq, pag, life, dash, pool>>
not_life ==
    <<post_table, issued, last, deleted, committed, calls, yreq, oreq,
      areq, preq, pag, mig, dash, pool>>
not_dash ==
    <<post_table, issued, last, deleted, committed, calls, yreq, oreq,
      areq, preq, pag, mig, life, pool>>
not_pool ==
    <<post_table, issued, last, deleted, committed, calls, yreq, oreq,
      areq, preq, pag, mig, life, dash>>

----------------------------------------------------------------------------
(* Bounds *)

MaxUsers == 2
MaxPosts == 1
MaxCalls == 2
MaxTags == 2
MaxRequests == 2
MaxPage == 4
MaxPageSize == 3
MaxRows == 2
MaxJobs == 5

(* Program constants *)

MaxTitleLen == 200

HTTP_200_OK == 200
HTTP_201_CREATED == 201
HTTP_204_NO_CONTENT == 204
HTTP_401_UNAUTHORIZED == 401
HTTP_403_FORBIDDEN == 403
HTTP_404_NOT_FOUND == 404
HTTP_422_UNPROCESSABLE == 422
HTTP_500_INTERNAL == 500

----------------------------------------------------------------------------
(* Values *)

NULL == "null"
JTrue == "true"
JFalse == "false"

Users == {ToString(i) : i \in 1..MaxUsers}
PostIds == {ToString(i) : i \in 1..MaxPosts}
Titles == {"a", "b"}
Contents == {"x"}
Columns == {"id", "title", "content", "published", "creator_id"}

NoRow == [id |-> NULL]
NoData == [id |-> NULL]

\* Authorization header: absent, a token jwt.decode rejects, or the token of a user
NoToken == "none"
BadToken == "bad"
Tokens == {NoToken, BadToken} \cup Users
\* a token that decodes to a payload without "id"
NoIdToken == "noid"

Col(values, c, default) == IF c \in DOMAIN values THEN values[c] ELSE default

----------------------------------------------------------------------------
(* structure/schemas.py *)

IsTitle(v) == v # NULL /\ v \notin {JTrue, JFalse} /\ Len(v) >= 1 /\ Len(v) <= MaxTitleLen
IsContent(v) == v # NULL /\ v \notin {JTrue, JFalse} /\ Len(v) >= 1
IsBool(v) == v \in {JTrue, JFalse}

\* PostCreate(PostBase): title and content required, published defaults to False
PostCreateValid(body) ==
    /\ "title" \in DOMAIN body /\ IsTitle(body["title"])
    /\ "content" \in DOMAIN body /\ IsContent(body["content"])
    /\ ("published" \in DOMAIN body => IsBool(body["published"]))

\* post_data.dict() of a PostCreate
PostCreateDict(body) ==
    [c \in {"title", "content", "published"} |-> Col(body, c, JFalse)]

\* PostUpdate: every field optional and nullable
PostUpdateValid(body) ==
    /\ ("title" \in DOMAIN body => body["title"] = NULL \/ IsTitle(body["title"]))
    /\ ("content" \in DOMAIN body => body["content"] = NULL \/ IsContent(body["content"]))
    /\ ("published" \in DOMAIN body => body["published"] = NULL \/ IsBool(body["published"]))

\* post_data.dict() of a PostUpdate: the fields the body leaves out come as None
PostUpdateDict_with_unset(body) ==
    [c \in {"title", "content", "published"} |-> Col(body, c, NULL)]

\* post_data.dict(exclude_unset=True) of a PostUpdate: the fields the body carries
PostUpdateDict(body) == body

\* PostResponse(PostBase): what response_model validation accepts as a response
PostResponseValid(row) ==
    /\ row # NoRow
    /\ IsTitle(row.title)
    /\ IsContent(row.content)
    /\ IsBool(row.published)
    /\ row.id # NULL
    /\ row.creator_id # NULL

----------------------------------------------------------------------------
(* structure/models.py: the post table *)

\* Column(..., nullable=False)
NotNullable == {"title", "content", "creator_id"}

\* uuid.uuid4: an id no row has had before (n ids are held by rows, past or present)
uuid4(n) == ToString(n + 1)

\* The row an INSERT of `values` builds: the column defaults fill id and published
InsertRow(values, new_id) ==
    [id |-> Col(values, "id", new_id),
     title |-> Col(values, "title", NULL),
     content |-> Col(values, "content", NULL),
     published |-> Col(values, "published", JFalse),
     creator_id |-> Col(values, "creator_id", NULL)]

\* The row an UPDATE ... SET `values` leaves
UpdateRow(old, values) == [c \in Columns |-> Col(values, c, old[c])]

ConstraintsOK(row) == \A c \in NotNullable : row[c] # NULL

----------------------------------------------------------------------------
(* structure/manager.py *)

get_by_id(tbl, post_id) == tbl[post_id]

\* raised: database.execute raised (the statement broke a constraint)
manager_create_post(tbl, post_data, new_id) ==
    LET row == InsertRow(PostCreateDict(post_data), new_id)
        tbl2 == [tbl EXCEPT ![new_id] = row]
    IN  IF ConstraintsOK(row)
        THEN [raised |-> FALSE, table |-> tbl2, ret |-> get_by_id(tbl2, new_id)]
        ELSE [raised |-> TRUE, table |-> tbl, ret |-> NoRow]

manager_update_post(tbl, post_id, post_data) ==
    LET values == PostUpdateDict(post_data)
        old == tbl[post_id]
        row == UpdateRow(old, values)
        tbl2 == [tbl EXCEPT ![post_id] = row]
    IN  IF old = NoRow
        THEN [raised |-> FALSE, table |-> tbl, ret |-> get_by_id(tbl, post_id)]
        ELSE IF ConstraintsOK(row)
        THEN [raised |-> FALSE, table |-> tbl2, ret |-> get_by_id(tbl2, post_id)]
        ELSE [raised |-> TRUE, table |-> tbl, ret |-> NoRow]

\* the DELETE built but never executed
manager_delete_post_unexecuted(tbl, post_id) == tbl

manager_delete_post(tbl, post_id) == [tbl EXCEPT ![post_id] = NoRow]

----------------------------------------------------------------------------
(* structure/dependencies.py, with parse_jwt_data of deps/auth-chain.py *)

Ok(v) == [ok |-> TRUE, val |-> v]
Raise(code) == [ok |-> FALSE, status |-> code]

\* oauth2_scheme answers 401 without a bearer token; jwt.decode raises JWTError;
\* payload["id"] of a payload without "id" is a KeyError
parse_jwt_data(token) ==
    IF token = NoToken THEN Raise(HTTP_401_UNAUTHORIZED)
    ELSE IF token = BadToken THEN Raise(HTTP_401_UNAUTHORIZED)
    ELSE IF token = NoIdToken THEN Raise(HTTP_500_INTERNAL)
    ELSE Ok([user_id |-> token])

valid_post_id(tbl, post_id) ==
    LET post == get_by_id(tbl, post_id)
    IN  IF post = NoRow THEN Raise(HTTP_404_NOT_FOUND) ELSE Ok(post)

\* the creator never compared with the token's user
valid_owned_post_unchecked(tbl, post_id, token) ==
    LET post == valid_post_id(tbl, post_id)
        token_data == parse_jwt_data(token)
    IN  IF ~post.ok THEN post
        ELSE IF ~token_data.ok THEN token_data
        ELSE post

valid_owned_post(tbl, post_id, token) ==
    LET post == valid_post_id(tbl, post_id)
        token_data == parse_jwt_data(token)
    IN  IF ~post.ok THEN post
        ELSE IF ~token_data.ok THEN token_data
        ELSE IF post.val.creator_id # token_data.val.user_id
        THEN Raise(HTTP_403_FORBIDDEN)
        ELSE post

----------------------------------------------------------------------------
(* structure/route.py: one action per endpoint *)

EmptyBody == [c \in {} |-> NULL]

CreateBodies ==
    {[title |-> "a", content |-> "x"],
     [title |-> "b", content |-> "x", published |-> JTrue],
     [title |-> "", content |-> "x"],
     [content |-> "x"]}

UpdateBodies ==
    {[title |-> "b"], [published |-> JTrue], [title |-> "b", published |-> JTrue],
     [title |-> ""], [title |-> NULL], [published |-> NULL]}

\* the Authorization headers the posts tests send: none, or a user's token
Bearers == {NoToken} \cup Users

Request(method, post_id, token, body) ==
    [method |-> method, post_id |-> post_id, token |-> token, body |-> body]

\* found: the row of req.post_id when the request arrived
Response(req, status, data) ==
    [method |-> req.method, post_id |-> req.post_id, token |-> req.token,
     body |-> req.body,
     found |-> IF req.post_id \in PostIds THEN get_by_id(post_table, req.post_id)
               ELSE NoRow,
     status |-> status, data |-> data]

\* serialize_response: a return value response_model rejects is a 500
Serialized(req, status, ret) ==
    IF PostResponseValid(ret) THEN Response(req, status, ret)
    ELSE Response(req, HTTP_500_INTERNAL, NoData)

get_post(post_id, token) ==
    LET req == Request("GET", post_id, token, EmptyBody)
        post == valid_post_id(post_table, post_id)
    IN  /\ last' = IF ~post.ok THEN Response(req, post.status, NoData)
                   ELSE Serialized(req, HTTP_200_OK, post.val)
        /\ UNCHANGED <<post_table, issued, deleted>>
        /\ UNCHANGED not_posts

create_post(token, body) ==
    LET req == Request("POST", NULL, token, body)
        new_id == uuid4(issued)
        res == manager_create_post(post_table, body, new_id)
    IN  /\ IF ~PostCreateValid(body)
           THEN /\ last' = Response(req, HTTP_422_UNPROCESSABLE, NoData)
                /\ UNCHANGED <<post_table, issued>>
           ELSE IF res.raised
           THEN /\ last' = Response(req, HTTP_500_INTERNAL, NoData)
                /\ UNCHANGED <<post_table, issued>>
           ELSE /\ issued < MaxPosts
                /\ issued' = issued + 1
                /\ post_table' = res.table
                /\ last' = Serialized(req, HTTP_201_CREATED, res.ret)
        /\ UNCHANGED deleted
        /\ UNCHANGED not_posts

\* the UPDATE sent for the post_id of the path before the dependency is looked at
update_post_before_check(post_id, token, body) ==
    LET req == Request("PUT", post_id, token, body)
        post == valid_owned_post(post_table, post_id, token)
        res == manager_update_post(post_table, post_id, body)
    IN  /\ post_table' = res.table
        /\ last' = IF ~post.ok THEN Response(req, post.status, NoData)
                   ELSE IF res.raised THEN Response(req, HTTP_500_INTERNAL, NoData)
                   ELSE Serialized(req, HTTP_200_OK, res.ret)
        /\ UNCHANGED <<issued, deleted>>
        /\ UNCHANGED not_posts

update_post(post_id, token, body) ==
    LET req == Request("PUT", post_id, token, body)
        post == valid_owned_post(post_table, post_id, token)
        res == manager_update_post(post_table, post.val.id, body)
    IN  /\ IF ~post.ok
           THEN /\ last' = Response(req, post.status, NoData)
                /\ UNCHANGED post_table
           ELSE IF ~PostUpdateValid(body)
           THEN /\ last' = Response(req, HTTP_422_UNPROCESSABLE, NoData)
                /\ UNCHANGED post_table
           ELSE /\ post_table' = res.table
                /\ last' = IF res.raised THEN Response(req, HTTP_500_INTERNAL, NoData)
                           ELSE Serialized(req, HTTP_200_OK, res.ret)
        /\ UNCHANGED <<issued, deleted>>
        /\ UNCHANGED not_posts

delete_post(post_id, token) ==
    LET req == Request("DELETE", post_id, token, EmptyBody)
        post == valid_owned_post(post_table, post_id, token)
    IN  /\ IF ~post.ok
           THEN /\ last' = Response(req, post.status, NoData)
                /\ UNCHANGED <<post_table, deleted>>
           ELSE /\ post_table' = manager_delete_post(post_table, post.val.id)
                /\ deleted' = deleted \cup {post.val.id}
                /\ last' = Response(req, HTTP_204_NO_CONTENT, NoData)
        /\ UNCHANGED issued
        /\ UNCHANGED not_posts

----------------------------------------------------------------------------
(* testing/factories.py, testing/crud-routes.py: the arranged rows *)

\* PostFactory.create(creator_id=user.id); db_session.add(post); db_session.commit()
PostFactory_create(creator, title) ==
    LET new_id == uuid4(issued)
        row == InsertRow([title |-> title, content |-> "x", published |-> JFalse,
                          creator_id |-> creator], new_id)
    IN  /\ issued < MaxPosts
        /\ issued' = issued + 1
        /\ post_table' = [post_table EXCEPT ![new_id] = row]
        /\ UNCHANGED <<last, deleted>>
        /\ UNCHANGED not_posts

----------------------------------------------------------------------------
(* The posts application *)

NoRequest == Response(Request("NONE", NULL, NoToken, EmptyBody), HTTP_200_OK, NoData)

PostsInit ==
    /\ post_table = [i \in PostIds |-> NoRow]
    /\ issued = 0
    /\ last = NoRequest
    /\ deleted = {}

ArrangePost == \E u \in Users : PostFactory_create(u, "a")
GetPost == \E i \in PostIds, t \in Bearers : get_post(i, t)
CreatePost == \E t \in Bearers, b \in CreateBodies : create_post(t, b)
UpdatePost == \E i \in PostIds, t \in Bearers, b \in UpdateBodies : update_post(i, t, b)
DeletePost == \E i \in PostIds, t \in Bearers : delete_post(i, t)

PostsNext == ArrangePost \/ GetPost \/ CreatePost \/ UpdatePost \/ DeletePost

----------------------------------------------------------------------------
(* database/transaction.py: create_post_with_tags *)

Calls == 1..MaxCalls
TagNames == {"t"}
TagLists == UNION {[1..n -> TagNames] : n \in 0..MaxTags}

\* posts.insert().values(**post_data.dict(), creator_id=creator_id)
PostRow(post_id) == [table |-> "posts", post_id |-> post_id, pos |-> 0, name |-> NULL]
\* tags_table.insert().values(post_id=post_id, name=tag_name), the pos-th of the loop
TagRow(post_id, pos, tag_name) ==
    [table |-> "tags", post_id |-> post_id, pos |-> pos, name |-> tag_name]

RequestedRows(post_id, tags) ==
    {PostRow(post_id)} \cup {TagRow(post_id, k, tags[k]) : k \in 1..Len(tags)}

\* database.transaction().__aexit__: commit without an exception, rollback with one
commit(db, written) == db \cup written
\* statements run outside a transaction stay when a later one fails
rollback_keeps_writes(db, written) == db \cup written

rollback(db, written) == db

\* the committed rows that belong to a post
RowsOf(post_id) == {r \in committed : r.post_id = post_id}

IdleCall == [pc |-> "idle", tags |-> <<>>, written |-> {}]

\* async with database.transaction(): (line 14); the call c holds post id c
tx_enter(c, tags) ==
    /\ calls[c].pc = "idle"
    /\ calls' = [calls EXCEPT ![c] = [pc |-> "insert_post", tags |-> tags, written |-> {}]]
    /\ UNCHANGED committed
    /\ UNCHANGED not_tx

\* post_id = await database.execute(post_query) (lines 16-20)
tx_insert_post(c) ==
    /\ calls[c].pc = "insert_post"
    /\ calls' = [calls EXCEPT ![c].pc = "insert_tags",
                              ![c].written = @ \cup {PostRow(c)}]
    /\ UNCHANGED committed
    /\ UNCHANGED not_tx

\* one round of the for loop (lines 23-28)
tx_insert_tag(c) ==
    LET k == Cardinality(calls[c].written)
    IN  /\ calls[c].pc = "insert_tags"
        /\ k <= Len(calls[c].tags)
        /\ calls' = [calls EXCEPT ![c].written = @ \cup {TagRow(c, k, calls[c].tags[k])}]
        /\ UNCHANGED committed
        /\ UNCHANGED not_tx
    /\ UNCHANGED not_tx

\* return await get_post_by_id(post_id) (line 31), after the last round
tx_read(c) ==
    /\ calls[c].pc = "insert_tags"
    /\ Cardinality(calls[c].written) = Len(calls[c].tags) + 1
    /\ calls' = [calls EXCEPT ![c].pc = "exit"]
    /\ UNCHANGED committed
    /\ UNCHANGED not_tx

\* leaving the block by the return: __aexit__ commits
tx_commit(c) ==
    /\ calls[c].pc = "exit"
    /\ committed' = commit(committed, calls[c].written)
    /\ calls' = [calls EXCEPT ![c].pc = "returned", ![c].written = {}]
    /\ UNCHANGED not_tx

\* an awaited statement (or the commit) raises: __aexit__ rolls back and the
\* exception leaves create_post_with_tags
tx_raise(c) ==
    /\ calls[c].pc \in {"insert_post", "insert_tags", "exit"}
    /\ committed' = rollback(committed, calls[c].written)
    /\ calls' = [calls EXCEPT ![c].pc = "raised", ![c].written = {}]
    /\ UNCHANGED not_tx

TxInit ==
    /\ committed = {}
    /\ calls = [c \in Calls |-> IdleCall]

TxNext ==
    \/ \E c \in Calls, tags \in TagLists : tx_enter(c, tags)
    \/ \E c \in Calls : tx_insert_post(c)
    \/ \E c \in Calls : tx_insert_tag(c)
    \/ \E c \in Calls : tx_read(c)
    \/ \E c \in Calls : tx_commit(c)
    \/ \E c \in Calls : tx_raise(c)

----------------------------------------------------------------------------
(* deps/yield-cleanup.py *)

Reqs == 1..MaxRequests

\* resource: "none" before db = AsyncSession() / create_redis_pool, then "open",
\* "closing" between redis.close() and wait_closed(), "closed" at the end
IdleYield == [route |-> "none", pc |-> "idle", resource |-> "none", closes |-> 0,
              outcome |-> "none"]

\* finally: await db.close() (lines 13-14): runs however the handler ended
get_db_finally(outcome, resource) == "closed"

\* redis.close() written after the yield without try/finally: skipped when the
\* handler's exception is thrown in at the yield
get_redis_close_dropped(outcome, resource) ==
    IF outcome = "error" THEN resource ELSE "closing"

\* finally: redis.close() (lines 30-31), reached through async with (line 36)
get_redis_finally(outcome, resource) == "closing"

\* GET /users or GET /cache/{key} arrives
y_receive(r, route) ==
    /\ yreq[r].pc = "idle"
    /\ yreq' = [yreq EXCEPT ![r].route = route, ![r].pc = "enter"]
    /\ UNCHANGED not_yield

\* the dependency runs up to its yield: db = AsyncSession() (line 10), or
\* redis = await aioredis.create_redis_pool(REDIS_URL) (line 27)
y_enter(r) ==
    /\ yreq[r].pc = "enter"
    /\ yreq' = [yreq EXCEPT ![r].resource = "open", ![r].pc = "handler"]
    /\ UNCHANGED not_yield

\* create_redis_pool raises before the try: there is no pool to release
y_enter_raise(r) ==
    /\ yreq[r].pc = "enter"
    /\ yreq[r].route = "cache"
    /\ yreq' = [yreq EXCEPT ![r].pc = "respond"]
    /\ UNCHANGED not_yield

\* get_users / get_cache returns (lines 19-20, 44-45); it needs the resource open
y_handler_return(r) ==
    /\ yreq[r].pc = "handler"
    /\ yreq[r].resource = "open"
    /\ yreq' = [yreq EXCEPT ![r].outcome = "ok", ![r].pc = "respond"]
    /\ UNCHANGED not_yield

\* get_users / get_cache raises
y_handler_raise(r) ==
    /\ yreq[r].pc = "handler"
    /\ yreq' = [yreq EXCEPT ![r].outcome = "error", ![r].pc = "respond"]
    /\ UNCHANGED not_yield

\* the response (or the error response) is sent; the code after yield runs
\* after it (lines 6-9, 18)
y_send_response(r) ==
    /\ yreq[r].pc = "respond"
    /\ yreq' = [yreq EXCEPT ![r].pc = IF yreq[r].resource = "none" THEN "ended"
                                       ELSE "exit"]
    /\ UNCHANGED not_yield

\* the code after yield of get_db (lines 13-14)
y_exit_db(r) ==
    /\ yreq[r].pc = "exit"
    /\ yreq[r].route = "users"
    /\ LET res == get_db_finally(yreq[r].outcome, yreq[r].resource)
       IN  yreq' = [yreq EXCEPT ![r].resource = res,
                                ![r].closes = IF res = yreq[r].resource THEN @ ELSE @ + 1,
                                ![r].pc = "ended"]
    /\ UNCHANGED not_yield

\* the code after yield of get_redis_dependency: leaving async with get_redis()
\* runs redis.close() (lines 30-31, 36-37)
y_exit_redis(r) ==
    /\ yreq[r].pc = "exit"
    /\ yreq[r].route = "cache"
    /\ LET res == get_redis_finally(yreq[r].outcome, yreq[r].resource)
       IN  yreq' = [yreq EXCEPT ![r].resource = res,
                                ![r].closes = IF res = yreq[r].resource THEN @ ELSE @ + 1,
                                ![r].pc = IF res = "closing" THEN "wait_closed"
                                          ELSE "ended"]
    /\ UNCHANGED not_yield

\* await redis.wait_closed() (line 32)
y_wait_closed(r) ==
    /\ yreq[r].pc = "wait_closed"
    /\ yreq' = [yreq EXCEPT ![r].resource = "closed", ![r].pc = "ended"]
    /\ UNCHANGED not_yield

YieldInit == yreq = [r \in Reqs |-> IdleYield]

YieldNext ==
    \/ \E r \in Reqs, route \in {"users", "cache"} : y_receive(r, route)
    \/ \E r \in Reqs : y_enter(r)
    \/ \E r \in Reqs : y_enter_raise(r)
    \/ \E r \in Reqs : y_handler_return(r)
    \/ \E r \in Reqs : y_handler_raise(r)
    \/ \E r \in Reqs : y_send_response(r)
    \/ \E r \in Reqs : y_exit_db(r)
    \/ \E r \in Reqs : y_exit_redis(r)
    \/ \E r \in Reqs : y_wait_closed(r)

----------------------------------------------------------------------------
(* deps/resource-ownership.py: get_user_post and its dependency graph *)

NoTokenData == [user_id |-> NULL]
NoCache == [d \in {} |-> NULL]

IdleOwner == [pc |-> "idle", token |-> NoToken, cache |-> NoCache, parse_calls |-> 0,
              owned_td |-> NoTokenData, creator_td |-> NoTokenData, status |-> 0]

\* Depends(dep) with use_cache off: dep runs for every dependant
Depends_uncached(cache, dep, result) ==
    [cache |-> (dep :> result) @@ cache, called |-> TRUE, val |-> result]

\* Depends(dep): within one request a dependency runs once and its result is
\* handed to every dependant (lines 58-60); result is what a call of dep returns
Depends(cache, dep, result) ==
    IF dep \in DOMAIN cache
    THEN [cache |-> cache, called |-> FALSE, val |-> cache[dep]]
    ELSE [cache |-> (dep :> result) @@ cache, called |-> TRUE, val |-> result]

\* the request ends and its dependency cache goes with it
OwnerEnd(r, code) ==
    [oreq EXCEPT ![r].pc = "ended", ![r].status = code, ![r].cache = NoCache]

\* GET /users/{user_id}/posts/{post_id} arrives with its Authorization header
o_receive(r, token) ==
    /\ oreq[r].pc = "idle"
    /\ oreq' = [oreq EXCEPT ![r].pc = "valid_post_id", ![r].token = token]
    /\ UNCHANGED not_owner

\* valid_post_id (lines 6-11); found is what posts_service.get_by_id returns
o_valid_post_id(r, found) ==
    LET d == Depends(oreq[r].cache, "valid_post_id", found)
    IN  /\ oreq[r].pc = "valid_post_id"
        /\ oreq' = IF d.val = NoRow THEN OwnerEnd(r, HTTP_404_NOT_FOUND)
                   ELSE [oreq EXCEPT ![r].pc = "owned_token", ![r].cache = d.cache]
        /\ UNCHANGED not_owner

\* Depends(parse_jwt_data) of valid_owned_post (line 15)
o_owned_token(r) ==
    LET d == Depends(oreq[r].cache, "parse_jwt_data", parse_jwt_data(oreq[r].token))
        calls_now == oreq[r].parse_calls + (IF d.called THEN 1 ELSE 0)
    IN  /\ oreq[r].pc = "owned_token"
        /\ oreq' = IF ~d.val.ok
                   THEN [OwnerEnd(r, d.val.status) EXCEPT ![r].parse_calls = calls_now]
                   ELSE [oreq EXCEPT ![r].pc = "valid_owned_post", ![r].cache = d.cache,
                                     ![r].parse_calls = calls_now,
                                     ![r].owned_td = d.val.val]
        /\ UNCHANGED not_owner

\* the body of valid_owned_post (lines 18-23)
o_valid_owned_post(r) ==
    LET post == oreq[r].cache["valid_post_id"]
        token_data == oreq[r].owned_td
    IN  /\ oreq[r].pc = "valid_owned_post"
        /\ oreq' = IF post.creator_id # token_data.user_id
                   THEN OwnerEnd(r, HTTP_403_FORBIDDEN)
                   ELSE [oreq EXCEPT ![r].pc = "creator_token"]
        /\ UNCHANGED not_owner

\* Depends(parse_jwt_data) of valid_active_creator (line 26)
o_creator_token(r) ==
    LET d == Depends(oreq[r].cache, "parse_jwt_data", parse_jwt_data(oreq[r].token))
        calls_now == oreq[r].parse_calls + (IF d.called THEN 1 ELSE 0)
    IN  /\ oreq[r].pc = "creator_token"
        /\ oreq' = IF ~d.val.ok
                   THEN [OwnerEnd(r, d.val.status) EXCEPT ![r].parse_calls = calls_now]
                   ELSE [oreq EXCEPT ![r].pc = "valid_active_creator",
                                     ![r].cache = d.cache,
                                     ![r].parse_calls = calls_now,
                                     ![r].creator_td = d.val.val]
        /\ UNCHANGED not_owner

NoUser == [id |-> NULL]
UserRecords == {[id |-> u, is_active |-> a, is_creator |-> c] :
                    u \in Users, a \in BOOLEAN, c \in BOOLEAN}

RaiseDetail(code, detail) == [ok |-> FALSE, status |-> code, detail |-> detail]

\* valid_active_creator (lines 29-43) on what users_service.get_by_id returned;
\* None["is_active"] is a TypeError, which is answered 500
valid_active_creator(user) ==
    IF user = NoUser THEN RaiseDetail(HTTP_500_INTERNAL, "TypeError")
    ELSE IF ~user.is_active THEN RaiseDetail(HTTP_403_FORBIDDEN, "User is banned")
    ELSE IF ~user.is_creator THEN RaiseDetail(HTTP_403_FORBIDDEN, "User is not a creator")
    ELSE Ok(user)

\* the body of valid_active_creator (lines 29-43); user is what
\* users_service.get_by_id returns
o_valid_active_creator(r, user) ==
    LET res == valid_active_creator(user)
    IN  /\ oreq[r].pc = "valid_active_creator"
        /\ user # NoUser => user.id = oreq[r].creator_td.user_id
        /\ oreq' = IF ~res.ok THEN OwnerEnd(r, res.status)
                   ELSE [oreq EXCEPT ![r].pc = "handler"]
        /\ UNCHANGED not_owner

\* get_user_post (lines 62-63)
o_get_user_post(r) ==
    /\ oreq[r].pc = "handler"
    /\ oreq' = OwnerEnd(r, HTTP_200_OK)
    /\ UNCHANGED not_owner

FoundPosts == {NoRow} \cup {[id |-> uuid4(0), creator_id |-> u] : u \in Users}

OwnerInit == oreq = [r \in Reqs |-> IdleOwner]

OwnerNext ==
    \/ \E r \in Reqs, t \in Tokens : o_receive(r, t)
    \/ \E r \in Reqs, found \in FoundPosts : o_valid_post_id(r, found)
    \/ \E r \in Reqs : o_owned_token(r)
    \/ \E r \in Reqs : o_valid_owned_post(r)
    \/ \E r \in Reqs : o_creator_token(r)
    \/ \E r \in Reqs, user \in UserRecords \cup {NoUser} : o_valid_active_creator(r, user)
    \/ \E r \in Reqs : o_get_user_post(r)

----------------------------------------------------------------------------
(* deps/auth-chain.py: parse_jwt_data -> get_current_user -> get_active_user *)

AuthTokens == Tokens \cup {NoIdToken}
AuthUsers == {[id |-> u, is_active |-> a] : u \in Users, a \in BOOLEAN}

\* lines 22-32; user is what users_service.get_by_id returned
get_current_user(user) ==
    IF user = NoUser THEN Raise(HTTP_401_UNAUTHORIZED) ELSE Ok(user)

\* is_active never looked at
get_active_user_unchecked(user) == Ok(user)

\* lines 34-43
get_active_user(user) ==
    IF ~user.is_active THEN Raise(HTTP_403_FORBIDDEN) ELSE Ok(user)

IdleAuth == [pc |-> "idle", token |-> NoToken, ran |-> {}, user |-> NoUser,
             status |-> 0]

AuthEnd(r, stage, code) ==
    [areq EXCEPT ![r].pc = "ended", ![r].status = code, ![r].ran = @ \cup {stage}]

\* a request to a route that depends on get_active_user arrives
a_receive(r, token) ==
    /\ areq[r].pc = "idle"
    /\ areq' = [areq EXCEPT ![r].pc = "parse_jwt_data", ![r].token = token]
    /\ UNCHANGED not_auth

a_parse_jwt_data(r) ==
    LET token_data == parse_jwt_data(areq[r].token)
    IN  /\ areq[r].pc = "parse_jwt_data"
        /\ areq' = IF ~token_data.ok THEN AuthEnd(r, "parse_jwt_data", token_data.status)
                   ELSE [areq EXCEPT ![r].pc = "get_current_user",
                                     ![r].ran = @ \cup {"parse_jwt_data"}]
        /\ UNCHANGED not_auth

a_get_current_user(r, found) ==
    LET user == get_current_user(found)
    IN  /\ areq[r].pc = "get_current_user"
        /\ found # NoUser => found.id = parse_jwt_data(areq[r].token).val.user_id
        /\ areq' = IF ~user.ok THEN AuthEnd(r, "get_current_user", user.status)
                   ELSE [areq EXCEPT ![r].pc = "get_active_user",
                                     ![r].ran = @ \cup {"get_current_user"},
                                     ![r].user = user.val]
        /\ UNCHANGED not_auth

\* status 200: the chain handed the user to the route
a_get_active_user(r) ==
    LET user == get_active_user(areq[r].user)
    IN  /\ areq[r].pc = "get_active_user"
        /\ areq' = IF ~user.ok THEN AuthEnd(r, "get_active_user", user.status)
                   ELSE AuthEnd(r, "get_active_user", HTTP_200_OK)
        /\ UNCHANGED not_auth

AuthInit == areq = [r \in Reqs |-> IdleAuth]

AuthNext ==
    \/ \E r \in Reqs, t \in AuthTokens : a_receive(r, t)
    \/ \E r \in Reqs : a_parse_jwt_data(r)
    \/ \E r \in Reqs, found \in AuthUsers \cup {NoUser} : a_get_current_user(r, found)
    \/ \E r \in Reqs : a_get_active_user(r)

----------------------------------------------------------------------------
(* deps/permission-factory.py *)

READ_POSTS == "read:posts"
WRITE_POSTS == "write:posts"
DELETE_POSTS == "delete:posts"
Permission == {READ_POSTS, WRITE_POSTS, DELETE_POSTS}

\* the permission each route passes to require_permission (lines 26, 34, 42)
Required(route) ==
    CASE route = "read_posts" -> READ_POSTS
      [] route = "create_post" -> WRITE_POSTS
      [] route = "delete_post" -> DELETE_POSTS

GuardedRoutes == {"read_posts", "create_post", "delete_post"}

\* a user dict with or without a "permissions" entry
PermUsers ==
    {[id |-> u] : u \in Users}
    \cup {[id |-> u, permissions |-> ps] : u \in Users, ps \in SUBSET Permission}

\* any permission at all lets the user in
check_permission_any(required_permission, user) ==
    IF Col(user, "permissions", {}) = {}
    THEN Raise(HTTP_403_FORBIDDEN) ELSE Ok(user)

\* check_permission of require_permission(required_permission) (lines 12-20)
check_permission(required_permission, user) ==
    IF required_permission \notin Col(user, "permissions", {})
    THEN Raise(HTTP_403_FORBIDDEN) ELSE Ok(user)

IdlePerm == [pc |-> "idle", route |-> "none", user |-> NoUser, status |-> 0,
             handled |-> FALSE]

\* a request to one of the guarded routes arrives
p_receive(route) ==
    /\ preq.pc \in {"idle", "ended"}
    /\ preq' = [IdlePerm EXCEPT !.pc = "get_current_user", !.route = route]
    /\ UNCHANGED not_perm

\* Depends(get_current_user) (line 13) raises 401
p_unauthenticated ==
    /\ preq.pc = "get_current_user"
    /\ preq' = [preq EXCEPT !.pc = "ended", !.status = HTTP_401_UNAUTHORIZED]
    /\ UNCHANGED not_perm

\* Depends(get_current_user) (line 13) returns the user
p_get_current_user(user) ==
    /\ preq.pc = "get_current_user"
    /\ preq' = [preq EXCEPT !.pc = "check_permission", !.user = user]
    /\ UNCHANGED not_perm

p_check_permission ==
    LET checked == check_permission(Required(preq.route), preq.user)
    IN  /\ preq.pc = "check_permission"
        /\ preq' = IF ~checked.ok
                   THEN [preq EXCEPT !.pc = "ended", !.status = checked.status]
                   ELSE [preq EXCEPT !.pc = "handler"]
        /\ UNCHANGED not_perm

\* read_posts / create_post / delete_post runs (lines 29, 37, 45)
p_handler ==
    /\ preq.pc = "handler"
    /\ preq' = [preq EXCEPT !.pc = "ended", !.status = HTTP_200_OK, !.handled = TRUE]
    /\ UNCHANGED not_perm

PermInit == preq = IdlePerm

PermNext ==
    \/ \E route \in GuardedRoutes : p_receive(route)
    \/ p_unauthenticated
    \/ \E user \in PermUsers : p_get_current_user(user)
    \/ p_check_permission
    \/ p_handler

----------------------------------------------------------------------------
(* deps/class-pagination.py *)

\* Field(1, ge=1) and Field(20, ge=1, le=100) (lines 6-7)
PageDefault == 1
PageGe == 1
PageSizeDefault == 20
PageSizeGe == 1
PageSizeLe == 100

\* the query strings sent to /items/: each parameter absent or an integer, with
\* the integers around both limits of page_size among them
Pages == 0..MaxPage
PageSizes == (0..MaxPageSize) \cup {PageSizeDefault} \cup ((PageSizeLe - 1)..(PageSizeLe + 1))
Queries ==
    {[k \in {} |-> 0]}
    \cup {[page |-> p] : p \in Pages}
    \cup {[page_size |-> s] : s \in PageSizes}
    \cup {[page |-> p, page_size |-> s] : p \in Pages, s \in PageSizes}

\* PaginationParams(**query): the fields with their defaults (lines 6-7)
PaginationParams(query) ==
    [page |-> Col(query, "page", PageDefault),
     page_size |-> Col(query, "page_size", PageSizeDefault)]

\* validate_page_size (lines 9-13): TRUE where it returns v
validate_page_size(v) == ~(v > PageSizeLe)

\* the constraints of the two fields and the validator: FALSE where the
\* constructor raises ValidationError
PaginationValid(pagination) ==
    /\ pagination.page >= PageGe
    /\ pagination.page_size >= PageSizeGe
    /\ pagination.page_size <= PageSizeLe
    /\ validate_page_size(pagination.page_size)

\* skip counted from page 0
skip_from_page_zero(pagination) == pagination.page * pagination.page_size

\* PaginationParams.skip (lines 15-17)
skip(pagination) == (pagination.page - 1) * pagination.page_size

\* PaginationParams.limit (lines 19-21)
limit(pagination) == pagination.page_size

NoItems == [query |-> [k \in {} |-> 0], accepted |-> FALSE, page |-> 0,
            page_size |-> 0, skip |-> 0, limit |-> 0]

\* read_items (lines 23-35): the window handed to get_items and the page echoed
\* in the response; a query the constructor refuses never reaches the handler
read_items(query) ==
    LET pagination == PaginationParams(query)
        answer == IF PaginationValid(pagination)
                  THEN [query |-> query, accepted |-> TRUE,
                        page |-> pagination.page, page_size |-> pagination.page_size,
                        skip |-> skip(pagination), limit |-> limit(pagination)]
                  ELSE [NoItems EXCEPT !.query = query]
    IN  /\ pag' = [prev |-> pag.cur, cur |-> answer]
        /\ UNCHANGED not_page

PageInit == pag = [prev |-> NoItems, cur |-> NoItems]

ReadItems == \E query \in Queries : read_items(query)

PageNext == ReadItems

----------------------------------------------------------------------------
(* database/migration-initial.py, database/migration-data.py *)

BASE == "base"
\* revision = 'abc123', down_revision = None (migration-initial.py lines 14-15)
ABC123 == "abc123"
\* revision = 'def456', down_revision = 'abc123' (migration-data.py lines 12-13)
DEF456 == "def456"
Revisions == {ABC123, DEF456}

down_revision(rev) == IF rev = DEF456 THEN ABC123 ELSE BASE

RoleValues == {"member", "creator", "admin"}

\* sa.Column(name, ..., nullable=...)
Column(name, nullable) == [name |-> name, nullable |-> nullable]

\* the steps of upgrade() of migration-initial.py (lines 26-36)
upgrade_abc123 ==
    <<[op |-> "create_table", table |-> "user",
       columns |-> {Column("id", FALSE), Column("email", FALSE),
                    Column("username", FALSE), Column("created_at", TRUE)}],
      [op |-> "create_index", name |-> "user_email_idx", column |-> "email"],
      [op |-> "create_index", name |-> "user_username_idx", column |-> "username"]>>

\* the steps of downgrade() of migration-initial.py (lines 43-45)
downgrade_abc123 ==
    <<[op |-> "drop_index", name |-> "user_username_idx"],
      [op |-> "drop_index", name |-> "user_email_idx"],
      [op |-> "drop_table", table |-> "user"]>>

\* the column constrained while its rows still hold NULL
upgrade_def456_unfilled ==
    <<[op |-> "add_column", column |-> Column("role", TRUE)],
      [op |-> "alter_column", name |-> "role", nullable |-> FALSE],
      [op |-> "execute_update_role"],
      [op |-> "create_check_constraint", name |-> "user_role_check",
       column |-> "role", allowed |-> RoleValues]>>

\* the steps of upgrade() of migration-data.py (lines 17-30)
upgrade_def456 ==
    <<[op |-> "add_column", column |-> Column("role", TRUE)],
      [op |-> "execute_update_role"],
      [op |-> "alter_column", name |-> "role", nullable |-> FALSE],
      [op |-> "create_check_constraint", name |-> "user_role_check",
       column |-> "role", allowed |-> RoleValues]>>

\* the role column left in place
downgrade_def456_keeps_column ==
    <<[op |-> "drop_constraint", name |-> "user_role_check"]>>

\* the steps of downgrade() of migration-data.py (lines 33-34)
downgrade_def456 ==
    <<[op |-> "drop_constraint", name |-> "user_role_check"],
      [op |-> "drop_column", name |-> "role"]>>

upgrade(rev) == IF rev = ABC123 THEN upgrade_abc123 ELSE upgrade_def456
downgrade(rev) == IF rev = ABC123 THEN downgrade_abc123 ELSE downgrade_def456

\* the database of the migrations: the user table (exists), its columns, unique
\* indexes and check constraints, and its rows (functions over the column names)
NoTable == [exists |-> FALSE, columns |-> {}, indexes |-> {}, checks |-> {}, rows |-> {}]

ColumnNames(d) == {c.name : c \in d.columns}
IndexNames(d) == {i.name : i \in d.indexes}
CheckNames(d) == {k.name : k \in d.checks}

\* a unique index admits no two rows with one value
Unique(rows, column) == \A r, q \in rows : r[column] = q[column] => r = q
\* a CHECK constraint passes where its expression is not false: NULL passes
CheckOK(rows, k) == \A r \in rows : r[k.column] = NULL \/ r[k.column] \in k.allowed
NotNullOK(rows, columns) == \A r \in rows, c \in columns : c.nullable \/ r[c.name] # NULL

WithColumn(r, name) == [c \in DOMAIN r \cup {name} |-> IF c = name THEN NULL ELSE r[c]]
WithoutColumn(r, name) == [c \in DOMAIN r \ {name} |-> r[c]]

Done(d) == [ok |-> TRUE, db |-> d]
Failed(d) == [ok |-> FALSE, db |-> d]

\* what one alembic operation does to the database; it raises (Failed) where
\* PostgreSQL refuses the statement
op_create_table(o, d) ==
    IF d.exists THEN Failed(d)
    ELSE Done([NoTable EXCEPT !.exists = TRUE, !.columns = o.columns])

op_create_index(o, d) ==
    IF ~d.exists \/ o.name \in IndexNames(d) \/ o.column \notin ColumnNames(d)
       \/ ~Unique(d.rows, o.column)
    THEN Failed(d)
    ELSE Done([d EXCEPT !.indexes = @ \cup {[name |-> o.name, column |-> o.column]}])

op_drop_index(o, d) ==
    IF o.name \notin IndexNames(d) THEN Failed(d)
    ELSE Done([d EXCEPT !.indexes = {i \in @ : i.name # o.name}])

op_drop_table(o, d) == IF ~d.exists THEN Failed(d) ELSE Done(NoTable)

op_add_column(o, d) ==
    IF ~d.exists \/ o.column.name \in ColumnNames(d)
       \/ (~o.column.nullable /\ d.rows # {})
    THEN Failed(d)
    ELSE Done([d EXCEPT !.columns = @ \cup {o.column},
                        !.rows = {WithColumn(r, o.column.name) : r \in @}])

\* UPDATE "user" SET role = 'member' WHERE role IS NULL (migration-data.py line 20)
op_execute_update_role(o, d) ==
    IF "role" \notin ColumnNames(d) THEN Failed(d)
    ELSE Done([d EXCEPT !.rows = {IF r["role"] = NULL
                                  THEN [r EXCEPT !["role"] = "member"] ELSE r : r \in @}])

op_alter_column(o, d) ==
    LET columns == {IF c.name = o.name THEN Column(c.name, o.nullable) ELSE c :
                        c \in d.columns}
    IN  IF o.name \notin ColumnNames(d) \/ ~NotNullOK(d.rows, columns) THEN Failed(d)
        ELSE Done([d EXCEPT !.columns = columns])

op_create_check_constraint(o, d) ==
    LET k == [name |-> o.name, column |-> o.column, allowed |-> o.allowed]
    IN  IF o.column \notin ColumnNames(d) \/ o.name \in CheckNames(d)
           \/ ~CheckOK(d.rows, k)
        THEN Failed(d)
        ELSE Done([d EXCEPT !.checks = @ \cup {k}])

op_drop_constraint(o, d) ==
    IF o.name \notin CheckNames(d) THEN Failed(d)
    ELSE Done([d EXCEPT !.checks = {k \in @ : k.name # o.name}])

\* DROP COLUMN takes the indexes and constraints of the column with it
op_drop_column(o, d) ==
    IF o.name \notin ColumnNames(d) THEN Failed(d)
    ELSE Done([d EXCEPT !.columns = {c \in @ : c.name # o.name},
                        !.indexes = {i \in @ : i.column # o.name},
                        !.checks = {k \in @ : k.column # o.name},
                        !.rows = {WithoutColumn(r, o.name) : r \in @}])

Apply(o, d) ==
    CASE o.op = "create_table" -> op_create_table(o, d)
      [] o.op = "create_index" -> op_create_index(o, d)
      [] o.op = "drop_index" -> op_drop_index(o, d)
      [] o.op = "drop_table" -> op_drop_table(o, d)
      [] o.op = "add_column" -> op_add_column(o, d)
      [] o.op = "execute_update_role" -> op_execute_update_role(o, d)
      [] o.op = "alter_column" -> op_alter_column(o, d)
      [] o.op = "create_check_constraint" -> op_create_check_constraint(o, d)
      [] o.op = "drop_constraint" -> op_drop_constraint(o, d)
      [] o.op = "drop_column" -> op_drop_column(o, d)

\* the schema without the rows
Schema(d) == [d EXCEPT !.rows = {}]

\* the rows the application inserts between migrations
Emails == {ToString(i) : i \in 1..MaxRows}
Usernames == {ToString(i) : i \in 1..MaxRows}
NoRole == [c \in {} |-> NULL]
RoleInputs == {NoRole} \cup {[role |-> v] : v \in {"member", "admin", "guest"}}

\* INSERT INTO "user": created_at takes its server default (migration-initial.py
\* line 31), a column without a value is NULL
UserRow(d, email, username, extra) ==
    [c \in ColumnNames(d) |->
        CASE c = "id" -> ToString(Cardinality(d.rows) + 1)
          [] c = "email" -> email
          [] c = "username" -> username
          [] c = "created_at" -> "now"
          [] OTHER -> Col(extra, c, NULL)]

\* the constraints the schema puts on an INSERT
InsertOK(d, row, extra) ==
    /\ d.exists
    /\ DOMAIN extra \subseteq ColumnNames(d)
    /\ NotNullOK({row}, d.columns)
    /\ \A i \in d.indexes : Unique(d.rows \cup {row}, i.column)
    /\ \A k \in d.checks : CheckOK({row}, k)

NoMigration == [revision |-> BASE, pc |-> "idle", direction |-> "none", target |-> BASE,
                todo |-> <<>>, done |-> <<>>, db |-> NoTable,
                before |-> [rev \in Revisions |-> NoTable],
                upgraded |-> [rev \in Revisions |-> <<>>]]

\* a user row is inserted while no migration runs; a refused INSERT changes nothing
m_insert_user(email, username, extra) ==
    LET row == UserRow(mig.db, email, username, extra)
    IN  /\ mig.pc = "idle"
        /\ mig.db.exists
        /\ Cardinality(mig.db.rows) < MaxRows
        /\ mig' = IF InsertOK(mig.db, row, extra)
                  THEN [mig EXCEPT !.db.rows = @ \cup {row}]
                  ELSE mig
        /\ UNCHANGED not_mig

\* alembic upgrade: the revision whose down_revision is the current one starts
m_upgrade(rev) ==
    /\ mig.pc = "idle"
    /\ mig.revision = down_revision(rev)
    /\ mig' = [mig EXCEPT !.pc = "upgrade", !.direction = "upgrade", !.target = rev,
                          !.todo = upgrade(rev), !.done = <<>>,
                          !.before[rev] = Schema(mig.db)]
    /\ UNCHANGED not_mig

\* alembic downgrade: the current revision starts to be undone
m_downgrade(rev) ==
    /\ mig.pc = "idle"
    /\ mig.revision = rev
    /\ mig' = [mig EXCEPT !.pc = "downgrade", !.direction = "downgrade", !.target = rev,
                          !.todo = downgrade(rev), !.done = <<>>]
    /\ UNCHANGED not_mig

\* the next statement of upgrade() / downgrade() runs; one that raises ends the run
m_step ==
    LET o == Head(mig.todo)
        res == Apply(o, mig.db)
    IN  /\ mig.pc \in {"upgrade", "downgrade"}
        /\ mig.todo # <<>>
        /\ mig' = IF res.ok
                  THEN [mig EXCEPT !.db = res.db, !.todo = Tail(@), !.done = Append(@, o)]
                  ELSE [mig EXCEPT !.pc = "failed"]
        /\ UNCHANGED not_mig

\* upgrade() / downgrade() returns and the revision is recorded
m_finish ==
    /\ mig.pc \in {"upgrade", "downgrade"}
    /\ mig.todo = <<>>
    /\ mig' = IF mig.pc = "upgrade"
              THEN [mig EXCEPT !.pc = "idle", !.revision = mig.target,
                               !.upgraded[mig.target] = mig.done]
              ELSE [mig EXCEPT !.pc = "idle", !.revision = down_revision(mig.target)]
    /\ UNCHANGED not_mig

MigInit == mig = NoMigration

InsertUser == \E email \in Emails, username \in Usernames, extra \in RoleInputs :
                  m_insert_user(email, username, extra)
Upgrade == \E rev \in Revisions : m_upgrade(rev)
Downgrade == \E rev \in Revisions : m_downgrade(rev)

MigNext == InsertUser \/ Upgrade \/ Downgrade \/ m_step \/ m_finish

----------------------------------------------------------------------------
(* database/lifespan.py and structure/run.py, hosted by an ASGI server or by *)
(* the client fixture of testing/conftest.py                                 *)

\* the two ways the application registers connect / disconnect
LIFESPAN == "lifespan"
ON_EVENT == "on_event"
\* the hosts: a server that drives the lifespan protocol, and
\* ASGITransport(app=app) (conftest.py lines 48-51), which sends requests only
SERVER == "server"
CLIENT == "client"

NotCreated == [app |-> "none", host |-> "none", pc |-> "created", connected |-> FALSE,
               connects |-> 0, disconnects |-> 0,
               handler |-> [r \in Reqs |-> "idle"]]

\* Database.connect() (lifespan.py line 12, run.py lines 27-29)
database_connect(l) == [l EXCEPT !.connected = TRUE, !.connects = @ + 1]

\* Database.disconnect() (lifespan.py line 15, run.py lines 31-33)
database_disconnect(l) == [l EXCEPT !.connected = FALSE, !.disconnects = @ + 1]

\* app = FastAPI(lifespan=lifespan) / app = FastAPI(...) with the two on_event
\* handlers, started under one of the hosts
l_create(app, host) ==
    /\ life.pc = "created"
    /\ life.host = "none"
    /\ life' = [life EXCEPT !.app = app, !.host = host,
                            !.pc = IF host = SERVER THEN "startup" ELSE "serving"]
    /\ UNCHANGED not_life

\* the server sends lifespan.startup: the code before yield, or startup(), runs
\* to its end, and only then are requests accepted
l_startup ==
    /\ life.pc = "startup"
    /\ life' = [database_connect(life) EXCEPT !.pc = "serving"]
    /\ UNCHANGED not_life

\* database.connect() raises: the application never serves
l_startup_raise ==
    /\ life.pc = "startup"
    /\ life' = [life EXCEPT !.pc = "stopped"]
    /\ UNCHANGED not_life

\* a request reaches its handler
l_request(r) ==
    /\ life.pc = "serving"
    /\ life.handler[r] = "idle"
    /\ life' = [life EXCEPT !.handler[r] = "running"]
    /\ UNCHANGED not_life

\* the handler awaits database.fetch_one (structure/manager.py line 13), which
\* raises on a database that is not connected
l_query(r) ==
    /\ life.handler[r] = "running"
    /\ life' = [life EXCEPT !.handler[r] = IF life.connected THEN "fetched" ELSE "raised"]
    /\ UNCHANGED not_life

\* the response is sent
l_respond(r) ==
    /\ life.handler[r] \in {"fetched", "raised"}
    /\ life' = [life EXCEPT !.handler[r] = IF @ = "fetched" THEN "ok" ELSE "error"]
    /\ UNCHANGED not_life

\* the host stops accepting requests: the server is told to exit, the client
\* fixture is torn down
l_stop ==
    /\ life.pc = "serving"
    /\ life' = [life EXCEPT !.pc = "draining"]
    /\ UNCHANGED not_life

\* the requests in flight have ended; the server sends lifespan.shutdown and the
\* code after yield, or shutdown(), runs; the client sends nothing
l_shutdown ==
    /\ life.pc = "draining"
    /\ \A r \in Reqs : life.handler[r] \in {"idle", "ok", "error"}
    /\ life' = IF life.host = SERVER
               THEN [database_disconnect(life) EXCEPT !.pc = "stopped"]
               ELSE [life EXCEPT !.pc = "stopped"]
    /\ UNCHANGED not_life

LifeInit == life = NotCreated

LifeNext ==
    \/ \E app \in {LIFESPAN, ON_EVENT}, host \in {SERVER, CLIENT} : l_create(app, host)
    \/ l_startup
    \/ l_startup_raise
    \/ \E r \in Reqs : l_request(r)
    \/ \E r \in Reqs : l_query(r)
    \/ \E r \in Reqs : l_respond(r)
    \/ l_stop
    \/ l_shutdown

----------------------------------------------------------------------------
(* async/concurrent-db-queries.py and async/concurrent-requests.py *)

GET_USER_DASHBOARD == "get_user_dashboard"
GET_USER_DATA == "get_user_data"

\* the three awaitables in the order they are handed to asyncio.gather
Tasks == 1..3

\* what each is asked for: the table of the query (concurrent-db-queries.py
\* lines 6-19) or the path of the request (concurrent-requests.py lines 12-14)
Source(fn, i) ==
    IF fn = GET_USER_DASHBOARD THEN <<"users", "posts", "comments">>[i]
    ELSE <<"profiles", "posts", "comments">>[i]

\* the keys of the returned dict, in the order of the unpacked names
Keys(fn) ==
    IF fn = GET_USER_DASHBOARD THEN <<"user", "posts", "comments">>
    ELSE <<"profile", "posts", "comments">>

\* what the operation of one awaitable yields
Fetched(fn, i, user_id) == [source |-> Source(fn, i), user_id |-> user_id]

\* results handed back in the order the tasks completed
gather_as_completed(results, order) == [i \in Tasks |-> results[order[i]]]

\* asyncio.gather: the results in the order of the arguments, whatever the
\* order in which the tasks completed
gather(results, order) == [i \in Tasks |-> results[i]]

NoResult == [source |-> NULL, user_id |-> NULL]
NoDict == [k \in {} |-> NoResult]

IdleDash == [fn |-> "none", user_id |-> NULL, pc |-> "idle",
             task |-> [i \in Tasks |-> "none"],
             results |-> [i \in Tasks |-> NoResult],
             order |-> <<>>, ret |-> NoDict]

\* the function is called: the three coroutines are created, none has started
\* (concurrent-db-queries.py lines 6-19, concurrent-requests.py lines 10-14)
d_call(fn, user_id) ==
    /\ dash.pc \in {"idle", "returned", "raised"}
    /\ \A i \in Tasks : dash.task[i] \notin {"created", "running"}
    /\ dash' = [IdleDash EXCEPT !.fn = fn, !.user_id = user_id, !.pc = "created",
                                !.task = [i \in Tasks |-> "created"]]
    /\ UNCHANGED not_dash

\* await asyncio.gather(...): every coroutine becomes a task and the caller is
\* suspended (lines 21-25, lines 16-20)
d_gather ==
    /\ dash.pc = "created"
    /\ dash' = [dash EXCEPT !.pc = "gathering", !.task = [i \in Tasks |-> "running"]]
    /\ UNCHANGED not_dash

\* the operation of one task completes
d_complete(i) ==
    /\ dash.task[i] = "running"
    /\ dash' = [dash EXCEPT !.task[i] = "done",
                            !.results[i] = Fetched(dash.fn, i, dash.user_id),
                            !.order = Append(@, i)]
    /\ UNCHANGED not_dash

\* the operation of one task raises; gather hands the first exception to the
\* caller at once and leaves the other tasks running
d_fail(i) ==
    /\ dash.task[i] = "running"
    /\ dash' = [dash EXCEPT !.task[i] = "failed",
                            !.pc = IF @ = "gathering" THEN "raised" ELSE @]
    /\ UNCHANGED not_dash

\* gather returns and the dict is built (lines 27-31, lines 22-26)
d_return ==
    LET values == gather(dash.results, dash.order)
        keys == Keys(dash.fn)
    IN  /\ dash.pc = "gathering"
        /\ \A i \in Tasks : dash.task[i] = "done"
        /\ dash' = [dash EXCEPT !.pc = "returned",
                                !.ret = [k \in {keys[i] : i \in Tasks} |->
                                            values[CHOOSE i \in Tasks : keys[i] = k]]]
        /\ UNCHANGED not_dash

DashInit == dash = IdleDash

DashNext ==
    \/ \E fn \in {GET_USER_DASHBOARD, GET_USER_DATA}, user_id \in Users : d_call(fn, user_id)
    \/ d_gather
    \/ \E i \in Tasks : d_complete(i)
    \/ \E i \in Tasks : d_fail(i)
    \/ d_return

----------------------------------------------------------------------------
(* async/cpu-intensive-process-pool.py *)

\* process_pool = ProcessPoolExecutor(max_workers=4) (line 6)
MAX_WORKERS == 4

\* the requests, each named by its query parameter n (no two ask for the same n)
Jobs == 1..MaxJobs

\* sum([x**2 for x in range(n)]) (lines 8-10), on Python's unbounded integers
RECURSIVE SumSquares(_)
SumSquares(n) == IF n <= 0 THEN 0 ELSE (n - 1) * (n - 1) + SumSquares(n - 1)

heavy_computation(n) == SumSquares(n)

\* the event loop's thread: free, or held by the handler of a request
LOOP_FREE == 0

IdleJob == [pc |-> "idle", result |-> 0]
NoJobs == [job |-> [n \in Jobs |-> IdleJob], loop |-> LOOP_FREE]

Running(p) == {n \in Jobs : p.job[n].pc = "running"}

\* heavy_computation(n) called in the handler itself: it runs on the loop's thread
run_on_loop(p, n) == [p EXCEPT !.job[n].pc = "running", !.loop = n]

\* loop.run_in_executor(process_pool, heavy_computation, n) (lines 16-20): the
\* work item is queued for the pool and the handler is suspended on its future
run_in_executor(p, n) == [p EXCEPT !.job[n].pc = "queued"]

\* POST /process-data?n=...: the handler runs up to its await (lines 13-16)
process_data(n) ==
    /\ pool.loop = LOOP_FREE
    /\ pool.job[n].pc = "idle"
    /\ pool' = run_in_executor(pool, n)
    /\ UNCHANGED not_pool

\* a worker process that is free takes a queued work item
worker_start(n) ==
    /\ pool.job[n].pc = "queued"
    /\ Cardinality(Running(pool)) < MAX_WORKERS
    /\ pool' = [pool EXCEPT !.job[n].pc = "running"]
    /\ UNCHANGED not_pool

\* heavy_computation returns in its worker and the future gets the result
worker_finish(n) ==
    /\ pool.job[n].pc = "running"
    /\ pool' = [pool EXCEPT !.job[n].pc = "computed",
                            !.job[n].result = heavy_computation(n),
                            !.loop = IF @ = n THEN LOOP_FREE ELSE @]
    /\ UNCHANGED not_pool

\* the loop resumes the handler, which returns {"result": result} (line 21)
process_data_return(n) ==
    /\ pool.loop = LOOP_FREE
    /\ pool.job[n].pc = "computed"
    /\ pool' = [pool EXCEPT !.job[n].pc = "responded"]
    /\ UNCHANGED not_pool

PoolInit == pool = NoJobs

PoolNext ==
    \/ \E n \in Jobs : process_data(n)
    \/ \E n \in Jobs : worker_start(n)
    \/ \E n \in Jobs : worker_finish(n)
    \/ \E n \in Jobs : process_data_return(n)

\* a step of a worker or of a suspended handler
PoolProgress ==
    \E n \in Jobs : worker_start(n) \/ worker_finish(n) \/ process_data_return(n)

\* the pool's workers and the loop keep running: while a worker or a handler
\* has a step to take, one of them is taken
PoolFairness == WF_vars(PoolProgress)

----------------------------------------------------------------------------
Init == PostsInit /\ TxInit /\ YieldInit /\ OwnerInit /\ AuthInit /\ PermInit
        /\ PageInit /\ MigInit /\ LifeInit /\ DashInit /\ PoolInit

SpecPosts == Init /\ [][PostsNext]_vars

SpecTx == Init /\ [][TxNext]_vars

SpecYield == Init /\ [][YieldNext]_vars

SpecOwner == Init /\ [][OwnerNext]_vars

SpecAuth == Init /\ [][AuthNext]_vars

SpecPerm == Init /\ [][PermNext]_vars

SpecPage == Init /\ [][PageNext]_vars

SpecMig == Init /\ [][MigNext]_vars

SpecLife == Init /\ [][LifeNext]_vars

SpecDash == Init /\ [][DashNext]_vars

SpecPool == Init /\ [][PoolNext]_vars /\ PoolFairness

----------------------------------------------------------------------------
(* Properties *)

\* C1: create_post_with_tags is all-or-nothing. While a call runs, and after it
\* has raised, the database holds neither its post nor any of its tags; after
\* it has returned, the database holds its post and every requested tag.
C1_AllOrNothing ==
    \A c \in Calls :
        /\ calls[c].pc = "returned" => RowsOf(c) = RequestedRows(c, calls[c].tags)
        /\ calls[c].pc # "returned" => RowsOf(c) = {}

\* a call that raised after its post and a tag were inserted, next to one that returned
C1_Witness ==
    \E c, d \in Calls :
        /\ calls[c].pc = "raised" /\ Len(calls[c].tags) = MaxTags
        /\ calls[d].pc = "returned" /\ Len(calls[d].tags) = MaxTags
        /\ RowsOf(d) = RequestedRows(d, calls[d].tags)

\* C2: the resource of a yield dependency is released after the response,
\* however the handler ended: it is closed at most once, only when the handler
\* has finished and the response is sent, and a request that has ended and had
\* opened a resource has closed it exactly once.
C2_ReleasedAfterResponse ==
    \A r \in Reqs :
        /\ yreq[r].closes <= 1
        /\ yreq[r].resource \in {"closing", "closed"}
              => /\ yreq[r].outcome # "none"
                 /\ yreq[r].pc \in {"wait_closed", "ended"}
        /\ yreq[r].pc = "ended"
              => /\ yreq[r].resource \in {"none", "closed"}
                 /\ yreq[r].outcome # "none"
                      => (yreq[r].resource = "closed" /\ yreq[r].closes = 1)

\* a request to /cache/{key} whose handler raised and one to /users whose handler
\* returned, both ended with their resource closed
C2_Witness ==
    \E r, q \in Reqs :
        /\ yreq[r].route = "cache" /\ yreq[r].outcome = "error"
        /\ yreq[r].pc = "ended" /\ yreq[r].resource = "closed"
        /\ yreq[q].route = "users" /\ yreq[q].outcome = "ok"
        /\ yreq[q].pc = "ended" /\ yreq[q].resource = "closed"

\* C3: within one request to get_user_post parse_jwt_data runs at most once, and
\* exactly once when both valid_owned_post and valid_active_creator have been
\* given its result; both are given the same token data, which is that of the
\* request's own token (no result of another request is reused).
C3_ParsedOncePerRequest ==
    \A r \in Reqs :
        /\ oreq[r].parse_calls <= 1
        /\ oreq[r].owned_td # NoTokenData
              => (oreq[r].parse_calls = 1 /\ oreq[r].owned_td.user_id = oreq[r].token)
        /\ oreq[r].creator_td # NoTokenData
              => (oreq[r].parse_calls = 1 /\ oreq[r].creator_td = oreq[r].owned_td)

\* two requests with different tokens, each answered 200
C3_Witness ==
    \E r, q \in Reqs :
        /\ oreq[r].pc = "ended" /\ oreq[r].status = HTTP_200_OK
        /\ oreq[q].pc = "ended" /\ oreq[q].status = HTTP_200_OK
        /\ oreq[r].token # oreq[q].token
        /\ oreq[r].creator_td # oreq[q].creator_td

IsOwnerOf(token, row) == row # NoRow /\ token \in Users /\ row.creator_id = token
IsStrangerTo(token, row) == row # NoRow /\ token \in Users /\ row.creator_id # token

\* C4: DELETE /posts/{post_id} with the valid token of a user who is not the
\* creator of the existing post is answered 403, and the post stays as it was.
C4_StrangerDeleteForbidden ==
    (last.method = "DELETE" /\ IsStrangerTo(last.token, last.found))
        => /\ last.status = HTTP_403_FORBIDDEN
           /\ get_by_id(post_table, last.post_id) = last.found

C4_Witness ==
    /\ last.method = "DELETE" /\ IsStrangerTo(last.token, last.found)
    /\ last.status = HTTP_403_FORBIDDEN

\* C5: once DELETE /posts/{post_id} has been answered 204, no row has that id
\* any more and every later GET /posts/{post_id} is answered 404.
C5_DeletedStaysGone ==
    /\ \A i \in deleted : get_by_id(post_table, i) = NoRow
    /\ (last.method = "GET" /\ last.post_id \in deleted)
            => last.status = HTTP_404_NOT_FOUND

C5_Witness ==
    /\ last.method = "GET" /\ last.post_id \in deleted
    /\ last.status = HTTP_404_NOT_FOUND

\* C6: POST /posts/ with a valid body by an authenticated user is answered 201
\* with the stored post, which carries the request's title and content and is
\* the row of the returned id.
C6_CreateReturnsStoredPost ==
    (last.method = "POST" /\ last.token \in Users /\ PostCreateValid(last.body))
        => /\ last.status = HTTP_201_CREATED
           /\ last.data # NoData
           /\ last.data.title = last.body["title"]
           /\ last.data.content = last.body["content"]
           /\ get_by_id(post_table, last.data.id) = last.data

\* C7: a post created through POST /posts/ with a user's token has that user as
\* its creator, and a PUT /posts/{post_id} by the creator is answered 200 with
\* every supplied field at its new value.
C7_CreatorMayUpdate ==
    /\ (last.method = "POST" /\ last.token \in Users /\ PostCreateValid(last.body))
            => /\ last.status = HTTP_201_CREATED
               /\ last.data # NoData
               /\ last.data.creator_id = last.token
    /\ (last.method = "PUT" /\ IsOwnerOf(last.token, last.found)
            /\ PostUpdateValid(last.body))
            => /\ last.status = HTTP_200_OK
               /\ last.data # NoData
               /\ \A c \in DOMAIN last.body : last.data[c] = last.body[c]

\* C8: GET /posts/{post_id} is answered 200 with the stored row (same id and
\* title) when a row has that id and 404 when none has, whatever the token, and
\* it changes neither the table nor the ids.
C8_GetPost ==
    [][(last' # last /\ last'.method = "GET")
          => /\ IF get_by_id(post_table, last'.post_id) # NoRow
                THEN /\ last'.status = HTTP_200_OK
                     /\ last'.data # NoData
                     /\ last'.data.id = last'.post_id
                     /\ last'.data.title = get_by_id(post_table, last'.post_id).title
                ELSE last'.status = HTTP_404_NOT_FOUND
             /\ UNCHANGED <<post_table, issued, deleted>>]_vars

\* C9: the chain hands over a user only when the token decodes, its user exists
\* and is active; it answers 401 for an invalid token, 401 when the user is not
\* found and 403 when the user is inactive; no stage runs after a failed one.
C9_AuthChain ==
    \A r \in Reqs :
        LET q == areq[r]
            decoded == q.token \in Users
            looked_up == "get_current_user" \in q.ran
        IN  /\ "get_current_user" \in q.ran => ("parse_jwt_data" \in q.ran /\ decoded)
            /\ "get_active_user" \in q.ran => (looked_up /\ q.user # NoUser)
            /\ q.pc = "ended" =>
                /\ q.status = HTTP_200_OK
                      <=> (decoded /\ q.user # NoUser /\ q.user.id = q.token
                           /\ q.user.is_active)
                /\ q.token \in {NoToken, BadToken}
                      => (q.status = HTTP_401_UNAUTHORIZED /\ q.ran = {"parse_jwt_data"})
                /\ (decoded /\ q.user = NoUser)
                      => (q.status = HTTP_401_UNAUTHORIZED
                          /\ q.ran = {"parse_jwt_data", "get_current_user"})
                /\ (decoded /\ q.user # NoUser /\ ~q.user.is_active)
                      => q.status = HTTP_403_FORBIDDEN

\* one request refused for an inactive user next to one that was handed its user
C9_Witness ==
    \E r, q \in Reqs :
        /\ areq[r].pc = "ended" /\ areq[r].status = HTTP_403_FORBIDDEN
        /\ areq[r].user # NoUser
        /\ areq[q].pc = "ended" /\ areq[q].status = HTTP_200_OK

\* C10: a route guarded by require_permission(P) runs its handler only for a user
\* whose permissions contain P and answers 403 to every other authenticated user,
\* the one without a permissions entry included; read_posts requires read:posts,
\* create_post write:posts, delete_post delete:posts, and a user holding only
\* other permissions is refused.
C10_PermissionGuard ==
    LET perms == Col(preq.user, "permissions", {})
        needed == CASE preq.route = "read_posts" -> "read:posts"
                    [] preq.route = "create_post" -> "write:posts"
                    [] preq.route = "delete_post" -> "delete:posts"
                    [] OTHER -> "none"
    IN  /\ preq.handled => (preq.user # NoUser /\ needed \in perms)
        /\ (preq.pc = "ended" /\ preq.user # NoUser)
              => IF needed \in perms
                 THEN preq.handled /\ preq.status = HTTP_200_OK
                 ELSE ~preq.handled /\ preq.status = HTTP_403_FORBIDDEN

\* a user holding the two other permissions is refused
C10_Witness ==
    /\ preq.pc = "ended" /\ preq.route = "delete_post"
    /\ preq.user # NoUser
    /\ Col(preq.user, "permissions", {}) = {"read:posts", "write:posts"}
    /\ preq.status = HTTP_403_FORBIDDEN /\ ~preq.handled

\* C11: a query is accepted exactly when page >= 1 and 1 <= page_size <= 100;
\* an accepted one has skip = (page - 1) * page_size >= 0 and limit = page_size,
\* page 1 starts at offset 0, and of two accepted requests for consecutive pages
\* of one page_size the second window starts where the first one ends.
C11_PaginationWindows ==
    /\ \A w \in {pag.prev, pag.cur} :
          LET page == Col(w.query, "page", 1)
              page_size == Col(w.query, "page_size", 20)
          IN  /\ (w # NoItems)
                    => (w.accepted <=> (page >= 1 /\ page_size >= 1 /\ page_size <= 100))
              /\ w.accepted
                    => /\ w.page = page /\ w.page_size = page_size
                       /\ w.skip = (page - 1) * page_size
                       /\ w.limit = page_size
                       /\ w.skip >= 0
                       /\ (page = 1 => w.skip = 0)
    /\ (pag.prev.accepted /\ pag.cur.accepted
          /\ pag.cur.page_size = pag.prev.page_size
          /\ pag.cur.page = pag.prev.page + 1)
            => pag.cur.skip = pag.prev.skip + pag.prev.limit

\* page 2 and then page 3 of size 100, the second window starting at 200
C11_Witness ==
    /\ pag.prev.accepted /\ pag.cur.accepted
    /\ pag.prev.page = 2 /\ pag.cur.page = 3
    /\ pag.prev.page_size = 100 /\ pag.cur.page_size = 100
    /\ pag.cur.skip = 200

\* the objects a run of a migration created or dropped, in the order of its steps
ObjectOf(o) ==
    CASE o.op \in {"create_table", "drop_table"} -> o.table
      [] o.op = "add_column" -> o.column.name
      [] OTHER -> o.name
IsCreate(o) ==
    o.op \in {"create_table", "create_index", "add_column", "create_check_constraint"}
IsDrop(o) == o.op \in {"drop_table", "drop_index", "drop_column", "drop_constraint"}
Objects(log) == [i \in 1..Len(log) |-> ObjectOf(log[i])]
Reverse(log) == [i \in 1..Len(log) |-> log[Len(log) + 1 - i]]

\* C12: no step of a migration raises, and when downgrade() of a revision has
\* returned the schema is the one that existed before its upgrade(): after the
\* initial schema's the user table and both indexes are gone, after
\* add-user-roles' the role column and user_role_check are gone; what upgrade()
\* created is dropped in the reverse order.
C12_Reversible ==
    /\ mig.pc # "failed"
    /\ (mig.pc = "idle" /\ mig.direction = "downgrade")
          => /\ Schema(mig.db) = mig.before[mig.target]
             /\ Objects(SelectSeq(mig.done, IsDrop))
                  = Reverse(Objects(SelectSeq(mig.upgraded[mig.target], IsCreate)))
             /\ mig.target = "abc123"
                  => (~mig.db.exists /\ mig.db.indexes = {} /\ mig.db.columns = {})
             /\ mig.target = "def456"
                  => /\ mig.db.exists
                     /\ "role" \notin ColumnNames(mig.db)
                     /\ "user_role_check" \notin CheckNames(mig.db)
                     /\ IndexNames(mig.db) = {"user_email_idx", "user_username_idx"}

\* add-user-roles undone on a table that holds rows
C12_Witness ==
    /\ mig.pc = "idle" /\ mig.direction = "downgrade" /\ mig.target = "def456"
    /\ mig.revision = "abc123"
    /\ Cardinality(mig.db.rows) = MaxRows
    /\ Schema(mig.db) = mig.before["def456"]

\* C13: the add-user-roles upgrade backfills before it constrains: until the
\* UPDATE has run the role column is nullable and unchecked, after it no row has
\* a NULL role; no step raises whatever rows the table held, and at revision
\* def456 every row has a role in {member, creator, admin}.
C13_BackfillBeforeConstrain ==
    LET ran == {mig.done[i].op : i \in 1..Len(mig.done)}
    IN  /\ mig.pc # "failed"
        /\ (mig.pc = "upgrade" /\ mig.target = "def456")
              => /\ "execute_update_role" \notin ran
                    => /\ \A c \in mig.db.columns : c.name = "role" => c.nullable
                       /\ mig.db.checks = {}
                       /\ "add_column" \in ran => \A r \in mig.db.rows : r["role"] = "null"
                 /\ "execute_update_role" \in ran
                    => \A r \in mig.db.rows : r["role"] = "member"
        /\ (mig.pc = "idle" /\ mig.revision = "def456")
              => /\ \A r \in mig.db.rows : r["role"] \in {"member", "creator", "admin"}
                 /\ Column("role", FALSE) \in mig.db.columns
                 /\ CheckNames(mig.db) = {"user_role_check"}

\* the upgrade has run all its steps on a table that held rows without a role
C13_Witness ==
    /\ mig.pc = "upgrade" /\ mig.target = "def456" /\ mig.todo = <<>>
    /\ Cardinality(mig.db.rows) = MaxRows
    /\ \A r \in mig.db.rows : r["role"] = "member"

\* C14: database.connect() has completed before any request is served, the
\* database is connected whenever a request handler runs, and
\* database.disconnect() runs once, at shutdown, after serving has stopped.
C14_ConnectedWhileServing ==
    /\ life.pc \in {"serving", "draining"} => (life.connected /\ life.connects = 1)
    /\ \A r \in Reqs : life.handler[r] \in {"running", "fetched"} => life.connected
    /\ \A r \in Reqs : life.handler[r] \notin {"raised", "error"}
    /\ life.disconnects <= 1
    /\ life.disconnects = 1 => life.pc = "stopped"
    /\ (life.pc = "stopped" /\ life.connects = 1)
          => (life.disconnects = 1 /\ ~life.connected)

\* the same under a host that drives the lifespan protocol
C14_UnderServer == life.host = "server" => C14_ConnectedWhileServing

\* C15: the three operations are in flight together from the moment the caller
\* awaits gather (none waits for another), the function returns only when all
\* three have completed, and whatever the order of completion each key holds
\* the result of its own operation for the call's user_id.
C15_FanOutFanIn ==
    LET first == IF dash.fn = "get_user_dashboard" THEN "user" ELSE "profile"
        first_source == IF dash.fn = "get_user_dashboard" THEN "users" ELSE "profiles"
    IN  /\ dash.pc = "gathering" => \A i \in Tasks : dash.task[i] \in {"running", "done"}
        /\ dash.pc = "created" => dash.order = <<>>
        /\ dash.pc = "returned"
              => /\ \A i \in Tasks : dash.task[i] = "done"
                 /\ Len(dash.order) = 3
                 /\ DOMAIN dash.ret = {first, "posts", "comments"}
                 /\ dash.ret[first] = [source |-> first_source, user_id |-> dash.user_id]
                 /\ dash.ret["posts"] = [source |-> "posts", user_id |-> dash.user_id]
                 /\ dash.ret["comments"] = [source |-> "comments", user_id |-> dash.user_id]
        /\ dash.pc # "returned" => dash.ret = NoDict

\* get_user_dashboard returned after the comments query completed first and the
\* users query last
C15_Witness ==
    /\ dash.fn = "get_user_dashboard" /\ dash.pc = "returned"
    /\ dash.order = <<3, 2, 1>>
    /\ dash.ret["user"].source = "users"

\* C16: a computation never holds the event loop (it runs in a worker while its
\* handler is suspended), at most 4 computations run at the same time, a
\* response carries the sum of the squares below the request's own n, and again
\* and again every request that has arrived has been answered (none waits for ever).
C16_ProcessPool ==
    /\ [](/\ pool.loop = 0
          /\ Cardinality(Running(pool)) <= 4
          /\ \A n \in Jobs :
                pool.job[n].pc \in {"computed", "responded"}
                    => 6 * pool.job[n].result = (n - 1) * n * (2 * n - 1))
    /\ []<>(\A n \in Jobs : pool.job[n].pc \in {"idle", "responded"})

\* four computations run while a fifth request has been accepted and waits
C16_Witness ==
    /\ Cardinality(Running(pool)) = 4
    /\ \E n \in Jobs : pool.job[n].pc = "queued"

\* C17: a PUT or DELETE on /posts/{post_id} that is refused with 404, 401 or 403
\* leaves every stored post, the issued ids and the deleted ids as they were;
\* it is refused with 404 when no row has the id, else with 401 when the token
\* is missing, else with 403 when the token's user is not the creator.
C17_RefusedChangesNothing ==
    [][(last' # last /\ last'.method \in {"PUT", "DELETE"})
          => /\ last'.status \in {404, 401, 403}
                  => UNCHANGED <<post_table, issued, deleted>>
             /\ last'.found = get_by_id(post_table, last'.post_id)
             /\ last'.found = NoRow => last'.status = 404
             /\ (last'.found # NoRow /\ last'.token \notin Users) => last'.status = 401
             /\ IsStrangerTo(last'.token, last'.found) => last'.status = 403]_vars

\* a PUT without a token on an existing post, refused and the row as it was
C17_Witness ==
    /\ last.method = "PUT" /\ last.status = 401
    /\ last.found # NoRow /\ last.token = NoToken
    /\ "title" \in DOMAIN last.body
    /\ get_by_id(post_table, last.post_id) = last.found

C19_ActiveCreatorOrForbidden ==
    /\ \A user \in UserRecords :
          LET res == valid_active_creator(user)
          IN  IF user.is_active /\ user.is_creator THEN res = Ok(user)
              ELSE /\ ~res.ok /\ res.status = 403
                   /\ ~user.is_active => res.detail = "User is banned"
    /\ \A r \in Reqs :
          (oreq[r].pc = "ended" /\ oreq[r].token \in Users)
              => oreq[r].status \in {200, 401, 403, 404}

====
